---- MODULE Spec2Model ----
(***************************************************************************)
(* Model of Instrument Control/Example/EventDrivenStateMachine.py:         *)
(* a producer thread (RandomProducer.run) gated by two threading.Event     *)
(* flags, a Controller state machine driven from the Tk UI thread, and the *)
(* UI-side consumer (_poll_inbox) draining a bounded queue.Queue.          *)
(*                                                                         *)
(* Two threads interleave: the producer thread and the Tk main loop.       *)
(* Every access to a shared object (the two Event flags, the queue) is one *)
(* step; the code between two such accesses is thread-local and is folded  *)
(* into the step that follows it.                                          *)
(*                                                                         *)
(* Time is an integer clock.  One unit stands for the 5 ms sleep bound of  *)
(* the producer; the period, the queue capacity and the poll batch size    *)
(* are scaled down (see the definitions below).                            *)
(***************************************************************************)
EXTENDS Integers, Sequences, FiniteSets, TLC

\* ---------------------------------------------------------------- bounds
\* queue.Queue(maxsize=64), scaled down
Capacity == 2
\* the batch limit of _poll_inbox (10), scaled down
BatchSize == 2
\* self.period = 1/hz (50 ms at hz=20), scaled down, in clock units
Period == 2
\* the 0.005 s cap of the producer's sleep: one clock unit
SleepMax == 1
\* the clock stops advancing here
MaxTime == 8
\* number of Controller.handle calls explored
MaxEvents == 3
\* how late, in clock units, the producer thread may be scheduled (SpecTiming)
MaxDelay == 2
\* number of _render_value calls explored (SpecEma)
MaxSamples == 25

\* ---------------------------------------------------------------- types
IDLE == "IDLE"
RUNNING == "RUNNING"
STOPPING == "STOPPING"
State == {IDLE, RUNNING, STOPPING}

START == "START"
STOP == "STOP"
SHUTDOWN == "SHUTDOWN"
Event == {START, STOP, SHUTDOWN}

\* Python's None, for _last_rx_time
NONE == -1

Min(a, b) == IF a < b THEN a ELSE b
Max(a, b) == IF a > b THEN a ELSE b

VARIABLES
    state,          \* Controller._state
    run_event,      \* RandomProducer._run_event
    shutdown,       \* RandomProducer._shutdown
    outbox,         \* the queue (RandomApp._inbox / RandomProducer.outbox)
    pc,             \* position of the producer thread in run()
    value,          \* the sample run() is about to put (0: none)
    next_tick,      \* run()'s absolute deadline
    ticks,          \* history: number of deadlines run() has found passed
    wake,           \* earliest clock value at which the current sleep returns
    now,            \* time.perf_counter()
    ui_pc,          \* position of the Tk main loop
    cur_event,      \* argument of the Controller.handle call in progress
    caller,         \* who called Controller.handle
    processed,      \* _poll_inbox's local counter
    poll_pending,   \* number of scheduled after(POLL_MS, _poll_inbox) callbacks
    destroy_pending,\* number of scheduled after(100, destroy) callbacks
    btn_start,      \* Start button is "normal"
    btn_stop,       \* Stop button is "normal"
    produced,       \* history: number of samples created by run()
    pushed,         \* history: samples put into the queue, in order
    stamps,         \* history: RandomValueMsg.timestamp of each of them
    run_since,      \* history: clock value at which the state became RUNNING
    evicted,        \* history: samples removed by run()'s own get_nowait
    rendered,       \* history: samples passed to _render_value, in order
    events,         \* history: events passed to Controller.handle, in order
    timing,         \* whether the histories stamps and run_since are kept
    ema_rate,       \* RandomApp._ema_rate, in mHz
    last_rx_time,   \* RandomApp._last_rx_time, in microseconds (NONE: None)
    rx_now,         \* time.perf_counter() as _render_value reads it, in microseconds
    rx_period,      \* arrival period of the rendered samples, in microseconds
    rx_count        \* history: number of _render_value calls

producer_vars == <<pc, value, next_tick, ticks, wake, produced>>
flag_vars == <<run_event, shutdown>>
queue_vars == <<outbox, pushed, stamps, evicted, rendered>>
ctl_vars == <<state, cur_event, caller, events, run_since>>
rate_vars == <<ema_rate, last_rx_time, rx_now, rx_period, rx_count>>
ui_vars == <<ui_pc, processed, poll_pending, destroy_pending, btn_start, btn_stop>>
vars == <<state, run_event, shutdown, outbox, pc, value, next_tick, ticks, wake, now,
          ui_pc, cur_event, caller, processed, poll_pending, destroy_pending,
          btn_start, btn_stop, produced, pushed, stamps, evicted, rendered, events,
          run_since, timing, ema_rate, last_rx_time, rx_now, rx_period, rx_count>>

\* ------------------------------------------------------------- queue.Queue
\* put_nowait succeeds iff the queue holds fewer than maxsize items
Full(q) == Len(q) >= Capacity
Empty(q) == Len(q) = 0

\* ---------------------------------------------------------------- Init
\* RandomApp.__init__: queue empty, producer thread started (both flags
\* clear), controller IDLE, _update_controls() run once, first poll scheduled.
InitApp ==
    /\ state = IDLE
    /\ run_event = FALSE
    /\ shutdown = FALSE
    /\ outbox = <<>>
    /\ pc = "loop"
    /\ value = 0
    /\ next_tick = 0
    /\ ticks = 0
    /\ wake = 0
    /\ now = 0
    /\ ui_pc = "mainloop"
    /\ cur_event = START
    /\ caller = "none"
    /\ processed = 0
    /\ poll_pending = 1
    /\ destroy_pending = 0
    /\ btn_start = TRUE
    /\ btn_stop = FALSE
    /\ produced = 0
    /\ pushed = <<>>
    /\ stamps = <<>>
    /\ run_since = 0
    /\ evicted = {}
    /\ rendered = <<>>
    /\ events = <<>>
    /\ ema_rate = 0
    /\ last_rx_time = NONE
    /\ rx_now = 0
    /\ rx_count = 0

\* the application as it starts; the rate estimate that _render_value keeps
\* for the label is display-only and is followed under SpecEma
Init ==
    /\ InitApp
    /\ timing = FALSE
    /\ rx_period = 0

\* ---------------------------------------------------------------- clock
Tick ==
    /\ now < MaxTime
    /\ now' = now + 1
    /\ UNCHANGED <<producer_vars, flag_vars, queue_vars, ctl_vars, ui_vars>>
    /\ UNCHANGED <<timing, rate_vars>>

\* ------------------------------------------------------ RandomProducer.run
\* LoopTest with the shutdown flag ignored: while True
LoopTest_Forever ==
    /\ pc = "loop"
    /\ pc' = "pace"
    /\ UNCHANGED <<value, next_tick, ticks, wake, produced, now>>
    /\ UNCHANGED <<flag_vars, queue_vars, ctl_vars, ui_vars>>
    /\ UNCHANGED <<timing, rate_vars>>

\* LoopTest testing the wrong flag: while self._run_event.is_set()
LoopTest_WrongFlag ==
    /\ pc = "loop"
    /\ pc' = IF ~run_event THEN "done" ELSE "pace"
    /\ UNCHANGED <<value, next_tick, ticks, wake, produced, now>>
    /\ UNCHANGED <<flag_vars, queue_vars, ctl_vars, ui_vars>>
    /\ UNCHANGED <<timing, rate_vars>>

\* while not self._shutdown.is_set():
LoopTest ==
    /\ pc = "loop"
    /\ pc' = IF shutdown THEN "done" ELSE "pace"
    /\ UNCHANGED <<value, next_tick, ticks, wake, produced, now>>
    /\ UNCHANGED <<flag_vars, queue_vars, ctl_vars, ui_vars>>
    /\ UNCHANGED <<timing, rate_vars>>

\* Pace re-arming the deadline relative to the clock: next_tick = now + period
Pace_FromNow ==
    /\ pc = "pace"
    /\ IF now < next_tick
         THEN /\ wake' = now + Min(SleepMax, next_tick - now)
              /\ pc' = "sleep"
              /\ UNCHANGED <<next_tick, ticks>>
         ELSE /\ next_tick' = now + Period
              /\ ticks' = ticks + 1
              /\ pc' = "enabled"
              /\ UNCHANGED wake
    /\ UNCHANGED <<value, produced, now>>
    /\ UNCHANGED <<flag_vars, queue_vars, ctl_vars, ui_vars>>
    /\ UNCHANGED <<timing, rate_vars>>

\* Pace with a period one unit too short
Pace_ShortPeriod ==
    /\ pc = "pace"
    /\ IF now < next_tick
         THEN /\ wake' = now + Min(SleepMax, next_tick - now)
              /\ pc' = "sleep"
              /\ UNCHANGED <<next_tick, ticks>>
         ELSE /\ next_tick' = next_tick + Period - 1
              /\ ticks' = ticks + 1
              /\ pc' = "enabled"
              /\ UNCHANGED wake
    /\ UNCHANGED <<value, produced, now>>
    /\ UNCHANGED <<flag_vars, queue_vars, ctl_vars, ui_vars>>
    /\ UNCHANGED <<timing, rate_vars>>

\* now = perf_counter(); if now < next_tick: sleep(min(0.005, next_tick-now));
\* continue -- else next_tick += self.period
Pace ==
    /\ pc = "pace"
    /\ IF now < next_tick
         THEN /\ wake' = now + Min(SleepMax, next_tick - now)
              /\ pc' = "sleep"
              /\ UNCHANGED <<next_tick, ticks>>
         ELSE /\ next_tick' = next_tick + Period
              /\ ticks' = ticks + 1
              /\ pc' = "enabled"
              /\ UNCHANGED wake
    /\ UNCHANGED <<value, produced, now>>
    /\ UNCHANGED <<flag_vars, queue_vars, ctl_vars, ui_vars>>
    /\ UNCHANGED <<timing, rate_vars>>

\* time.sleep returns: the clock has reached the wake-up time at least
SleepReturn ==
    /\ pc = "sleep"
    /\ now' = Min(Max(now, wake), MaxTime)
    /\ pc' = "loop"
    /\ wake' = 0
    /\ UNCHANGED <<value, next_tick, ticks, produced>>
    /\ UNCHANGED <<flag_vars, queue_vars, ctl_vars, ui_vars>>
    /\ UNCHANGED <<timing, rate_vars>>

\* if self._run_event.is_set(): value = rng.random()
EnabledTest ==
    /\ pc = "enabled"
    /\ IF run_event
         THEN /\ produced' = produced + 1
              /\ value' = produced + 1
              /\ pc' = "put1"
         ELSE /\ pc' = "loop"
              /\ UNCHANGED <<produced, value>>
    /\ UNCHANGED <<next_tick, ticks, wake, now>>
    /\ UNCHANGED <<flag_vars, queue_vars, ctl_vars, ui_vars>>
    /\ UNCHANGED <<timing, rate_vars>>

\* Put1 with the queue.Full handling forgotten: the put always succeeds
Put1_Unbounded ==
    /\ pc = "put1"
    /\ outbox' = Append(outbox, value)
    /\ pushed' = Append(pushed, value)
    /\ stamps' = IF timing THEN Append(stamps, now) ELSE stamps
    /\ value' = 0
    /\ pc' = "loop"
    /\ UNCHANGED <<next_tick, ticks, wake, produced, now, evicted, rendered>>
    /\ UNCHANGED <<flag_vars, ctl_vars, ui_vars>>
    /\ UNCHANGED <<timing, rate_vars>>

\* try: self.outbox.put_nowait(msg)   except queue.Full: -> eviction
Put1 ==
    /\ pc = "put1"
    /\ IF Full(outbox)
         THEN /\ pc' = "evict"
              /\ UNCHANGED <<outbox, pushed, stamps, value>>
         ELSE /\ outbox' = Append(outbox, value)
              /\ pushed' = Append(pushed, value)
              /\ stamps' = IF timing THEN Append(stamps, now) ELSE stamps
              /\ value' = 0
              /\ pc' = "loop"
    /\ UNCHANGED <<next_tick, ticks, wake, produced, now, evicted, rendered>>
    /\ UNCHANGED <<flag_vars, ctl_vars, ui_vars>>
    /\ UNCHANGED <<timing, rate_vars>>

\* Evict removing the newest queued sample instead of the oldest
Evict_Newest ==
    /\ pc = "evict"
    /\ IF Empty(outbox)
         THEN UNCHANGED <<outbox, evicted>>
         ELSE /\ outbox' = SubSeq(outbox, 1, Len(outbox) - 1)
              /\ evicted' = evicted \cup {outbox[Len(outbox)]}
    /\ pc' = "put2"
    /\ UNCHANGED <<value, next_tick, ticks, wake, produced, now, pushed, stamps, rendered>>
    /\ UNCHANGED <<flag_vars, ctl_vars, ui_vars>>
    /\ UNCHANGED <<timing, rate_vars>>

\* Evict with the get_nowait forgotten: nothing makes room for the re-put
Evict_Skip ==
    /\ pc = "evict"
    /\ pc' = "put2"
    /\ UNCHANGED <<outbox, evicted>>
    /\ UNCHANGED <<value, next_tick, ticks, wake, produced, now, pushed, stamps, rendered>>
    /\ UNCHANGED <<flag_vars, ctl_vars, ui_vars>>
    /\ UNCHANGED <<timing, rate_vars>>

\* try: _ = self.outbox.get_nowait()   except queue.Empty: pass
Evict ==
    /\ pc = "evict"
    /\ IF Empty(outbox)
         THEN UNCHANGED <<outbox, evicted>>
         ELSE /\ outbox' = Tail(outbox)
              /\ evicted' = evicted \cup {Head(outbox)}
    /\ pc' = "put2"
    /\ UNCHANGED <<value, next_tick, ticks, wake, produced, now, pushed, stamps, rendered>>
    /\ UNCHANGED <<flag_vars, ctl_vars, ui_vars>>
    /\ UNCHANGED <<timing, rate_vars>>

\* try: self.outbox.put_nowait(msg)   except queue.Full: pass
Put2 ==
    /\ pc = "put2"
    /\ IF Full(outbox)
         THEN UNCHANGED <<outbox, pushed, stamps>>
         ELSE /\ outbox' = Append(outbox, value)
              /\ pushed' = Append(pushed, value)
              /\ stamps' = IF timing THEN Append(stamps, now) ELSE stamps
    /\ value' = 0
    /\ pc' = "loop"
    /\ UNCHANGED <<next_tick, ticks, wake, produced, now, evicted, rendered>>
    /\ UNCHANGED <<flag_vars, ctl_vars, ui_vars>>
    /\ UNCHANGED <<timing, rate_vars>>

Producer ==
    \/ LoopTest
    \/ Pace
    \/ SleepReturn
    \/ EnabledTest
    \/ Put1
    \/ Evict
    \/ Put2

\* ------------------------------------------------------ Controller.handle
\* HandleCall with a restart path: START in STOPPING enables the producer
HandleCall_Restart(s, e) ==
    IF s = IDLE
      THEN IF e = START THEN "enable"
           ELSE IF e = SHUTDOWN THEN "shutdown"
           ELSE "none"
    ELSE IF s = RUNNING
      THEN IF e = STOP THEN "disable"
           ELSE IF e = SHUTDOWN THEN "shutdown"
           ELSE "none"
    ELSE IF e = START THEN "enable" ELSE "none"

\* the producer call handle(event) makes in state s, if any
HandleCall(s, e) ==
    IF s = IDLE
      THEN IF e = START THEN "enable"
           ELSE IF e = SHUTDOWN THEN "shutdown"
           ELSE "none"
    ELSE IF s = RUNNING
      THEN IF e = STOP THEN "disable"
           ELSE IF e = SHUTDOWN THEN "shutdown"
           ELSE "none"
    ELSE "none"

\* HandleState with START toggling a running controller back to IDLE
HandleState_Toggle(s, e) ==
    IF s = IDLE
      THEN IF e = START THEN RUNNING
           ELSE IF e = SHUTDOWN THEN STOPPING
           ELSE s
    ELSE IF s = RUNNING
      THEN IF e \in {START, STOP} THEN IDLE
           ELSE IF e = SHUTDOWN THEN STOPPING
           ELSE s
    ELSE s

\* HandleState with a restart path: START in STOPPING goes back to IDLE
HandleState_Restart(s, e) ==
    IF s = IDLE
      THEN IF e = START THEN RUNNING
           ELSE IF e = SHUTDOWN THEN STOPPING
           ELSE s
    ELSE IF s = RUNNING
      THEN IF e = STOP THEN IDLE
           ELSE IF e = SHUTDOWN THEN STOPPING
           ELSE s
    ELSE IF e = START THEN IDLE ELSE s

\* the value handle(event) assigns to self._state in state s
HandleState(s, e) ==
    IF s = IDLE
      THEN IF e = START THEN RUNNING
           ELSE IF e = SHUTDOWN THEN STOPPING
           ELSE s
    ELSE IF s = RUNNING
      THEN IF e = STOP THEN IDLE
           ELSE IF e = SHUTDOWN THEN STOPPING
           ELSE s
    ELSE s

\* where the UI thread continues when handle returns to caller c
Return(c) ==
    IF c \in {"on_start", "on_stop"} THEN "update_controls"
    ELSE IF c = "on_close" THEN "schedule_destroy"
    ELSE "mainloop"

\* handle(e) is entered from caller c and runs up to its first access to the
\* producer: enable() and disable() are one Event access, shutdown() is two.
HandleEnter(e, c) ==
    /\ ui_pc = "mainloop"
    /\ Len(events) < MaxEvents
    /\ events' = Append(events, e)
    /\ cur_event' = e
    /\ caller' = c
    /\ LET call == HandleCall(state, e) IN
         /\ run_event' = IF call = "enable" THEN TRUE
                         ELSE IF call = "disable" THEN FALSE
                         ELSE run_event
         /\ shutdown' = IF call = "shutdown" THEN TRUE ELSE shutdown
         /\ ui_pc' = IF call = "shutdown" THEN "shutdown_clear"
                     ELSE IF call = "none" THEN Return(c)
                     ELSE "set_state"
         \* a pair with no branch returns at once, self._state as it was
         /\ state' = IF call = "none" THEN HandleState(state, e) ELSE state
    /\ UNCHANGED <<run_since, processed, poll_pending, destroy_pending, btn_start, btn_stop>>
    /\ UNCHANGED <<producer_vars, queue_vars, now>>
    /\ UNCHANGED <<timing, rate_vars>>

\* ShutdownClear with the clear() forgotten: shutdown only sets _shutdown
ShutdownClear_Keep ==
    /\ ui_pc = "shutdown_clear"
    /\ ui_pc' = "set_state"
    /\ UNCHANGED <<run_event, shutdown, processed, poll_pending, destroy_pending, btn_start, btn_stop>>
    /\ UNCHANGED <<producer_vars, queue_vars, ctl_vars, now>>
    /\ UNCHANGED <<timing, rate_vars>>

\* RandomProducer.shutdown, second statement: self._run_event.clear()
ShutdownClear ==
    /\ ui_pc = "shutdown_clear"
    /\ run_event' = FALSE
    /\ ui_pc' = "set_state"
    /\ UNCHANGED <<shutdown, processed, poll_pending, destroy_pending, btn_start, btn_stop>>
    /\ UNCHANGED <<producer_vars, queue_vars, ctl_vars, now>>
    /\ UNCHANGED <<timing, rate_vars>>

\* self._state = ...; handle returns
SetState ==
    /\ ui_pc = "set_state"
    /\ state' = HandleState(state, cur_event)
    /\ run_since' = IF timing /\ state' = RUNNING THEN now ELSE 0
    /\ ui_pc' = Return(caller)
    /\ UNCHANGED <<cur_event, caller, events>>
    /\ UNCHANGED <<processed, poll_pending, destroy_pending, btn_start, btn_stop>>
    /\ UNCHANGED <<producer_vars, flag_vars, queue_vars, now>>
    /\ UNCHANGED <<timing, rate_vars>>

Handle ==
    \/ ShutdownClear
    \/ SetState

\* a Controller.handle call in progress
InHandle == ui_pc \in {"shutdown_clear", "set_state"}

\* ------------------------------------------------------------ RandomApp
\* Start button pressed (only a "normal" button runs its command)
OnStart ==
    /\ btn_start
    /\ HandleEnter(START, "on_start")

OnStop ==
    /\ btn_stop
    /\ HandleEnter(STOP, "on_stop")

\* WM_DELETE_WINDOW
OnClose == HandleEnter(SHUTDOWN, "on_close")

\* _update_controls, the second statement of _on_start and _on_stop
UpdateControls ==
    /\ ui_pc = "update_controls"
    /\ btn_start' = (state # RUNNING)
    /\ btn_stop' = (state = RUNNING)
    /\ ui_pc' = "mainloop"
    /\ UNCHANGED <<processed, poll_pending, destroy_pending>>
    /\ UNCHANGED <<producer_vars, flag_vars, queue_vars, ctl_vars, now>>
    /\ UNCHANGED <<timing, rate_vars>>

\* self.after(100, self.destroy), the second statement of _on_close
ScheduleDestroy ==
    /\ ui_pc = "schedule_destroy"
    /\ destroy_pending' = destroy_pending + 1
    /\ ui_pc' = "mainloop"
    /\ UNCHANGED <<processed, poll_pending, btn_start, btn_stop>>
    /\ UNCHANGED <<producer_vars, flag_vars, queue_vars, ctl_vars, now>>
    /\ UNCHANGED <<timing, rate_vars>>

\* the scheduled destroy fires: the window is gone, mainloop returns
Destroy ==
    /\ ui_pc = "mainloop"
    /\ destroy_pending > 0
    /\ ui_pc' = "destroyed"
    /\ UNCHANGED <<processed, poll_pending, destroy_pending, btn_start, btn_stop>>
    /\ UNCHANGED <<producer_vars, flag_vars, queue_vars, ctl_vars, now>>
    /\ UNCHANGED <<timing, rate_vars>>

\* ------------------------------------------------- RandomApp._poll_inbox
\* the scheduled callback fires: processed = 0
PollStart ==
    /\ ui_pc = "mainloop"
    /\ poll_pending > 0
    /\ poll_pending' = poll_pending - 1
    /\ processed' = 0
    /\ ui_pc' = "poll"
    /\ UNCHANGED <<destroy_pending, btn_start, btn_stop>>
    /\ UNCHANGED <<producer_vars, flag_vars, queue_vars, ctl_vars, now>>
    /\ UNCHANGED <<timing, rate_vars>>

\* PollStep taking the newest queued sample instead of the oldest
PollStep_Lifo ==
    /\ ui_pc = "poll"
    /\ IF processed < BatchSize /\ ~Empty(outbox)
         THEN /\ outbox' = SubSeq(outbox, 1, Len(outbox) - 1)
              /\ rendered' = Append(rendered, outbox[Len(outbox)])
              /\ processed' = processed + 1
              /\ UNCHANGED <<ui_pc, poll_pending>>
         ELSE /\ poll_pending' = poll_pending + 1
              /\ ui_pc' = "mainloop"
              /\ UNCHANGED <<outbox, rendered, processed>>
    /\ UNCHANGED <<pushed, stamps, evicted, destroy_pending, btn_start, btn_stop>>
    /\ UNCHANGED <<producer_vars, flag_vars, ctl_vars, now>>
    /\ UNCHANGED <<timing, rate_vars>>

\* PollStep rendering the head of the queue without removing it
PollStep_Peek ==
    /\ ui_pc = "poll"
    /\ IF processed < BatchSize /\ ~Empty(outbox)
         THEN /\ rendered' = Append(rendered, Head(outbox))
              /\ processed' = processed + 1
              /\ UNCHANGED <<outbox, ui_pc, poll_pending>>
         ELSE /\ poll_pending' = poll_pending + 1
              /\ ui_pc' = "mainloop"
              /\ UNCHANGED <<outbox, rendered, processed>>
    /\ UNCHANGED <<pushed, stamps, evicted, destroy_pending, btn_start, btn_stop>>
    /\ UNCHANGED <<producer_vars, flag_vars, ctl_vars, now>>
    /\ UNCHANGED <<timing, rate_vars>>

\* PollStep with the batch limit forgotten: it drains until the queue is empty
PollStep_NoLimit ==
    /\ ui_pc = "poll"
    /\ IF ~Empty(outbox)
         THEN /\ outbox' = Tail(outbox)
              /\ rendered' = Append(rendered, Head(outbox))
              /\ processed' = processed + 1
              /\ UNCHANGED <<ui_pc, poll_pending>>
         ELSE /\ poll_pending' = poll_pending + 1
              /\ ui_pc' = "mainloop"
              /\ UNCHANGED <<outbox, rendered, processed>>
    /\ UNCHANGED <<pushed, stamps, evicted, destroy_pending, btn_start, btn_stop>>
    /\ UNCHANGED <<producer_vars, flag_vars, ctl_vars, now>>
    /\ UNCHANGED <<timing, rate_vars>>

\* one turn of "while processed < 10": get_nowait, then render or break;
\* leaving the loop runs self.after(POLL_MS, self._poll_inbox)
PollStep ==
    /\ ui_pc = "poll"
    /\ IF processed < BatchSize /\ ~Empty(outbox)
         THEN /\ outbox' = Tail(outbox)
              /\ rendered' = Append(rendered, Head(outbox))
              /\ processed' = processed + 1
              /\ UNCHANGED <<ui_pc, poll_pending>>
         ELSE /\ poll_pending' = poll_pending + 1
              /\ ui_pc' = "mainloop"
              /\ UNCHANGED <<outbox, rendered, processed>>
    /\ UNCHANGED <<pushed, stamps, evicted, destroy_pending, btn_start, btn_stop>>
    /\ UNCHANGED <<producer_vars, flag_vars, ctl_vars, now>>
    /\ UNCHANGED <<timing, rate_vars>>

Poll ==
    \/ PollStart
    \/ PollStep

\* ------------------------------------------------------- specifications
\* the application: events reach the controller through the UI callbacks
Next ==
    \/ Tick
    \/ Producer
    \/ OnStart
    \/ OnStop
    \/ OnClose
    \/ Handle
    \/ UpdateControls
    \/ ScheduleDestroy
    \/ Destroy
    \/ Poll

Spec == Init /\ [][Next]_vars

\* the application with the producer thread scheduled fairly: a runnable OS
\* thread is not starved for ever
SpecLive == Init /\ [][Next]_vars /\ WF_vars(Producer)

\* what the Tk main loop does without the user: it finishes the callback it
\* is in and fires the pending after() callback of the poll
UiRuns ==
    \/ Handle
    \/ UpdateControls
    \/ ScheduleDestroy
    \/ Poll

\* the application with both threads scheduled fairly
SpecDrain == Init /\ [][Next]_vars /\ WF_vars(Producer) /\ WF_vars(UiRuns)

\* the deadline the producer is serving: the one it has just found passed
\* while it is between the pacing test and the end of the put, else the next
PendingDeadline ==
    IF pc \in {"enabled", "put1", "evict", "put2"}
      THEN next_tick - Period
      ELSE next_tick

\* the clock advances only while the producer is at most MaxDelay late
TickTimely ==
    /\ now + 1 <= PendingDeadline + MaxDelay
    /\ Tick

\* sustained running: Start is pressed and nothing else, nobody consumes, the
\* producer is scheduled with a bounded delay; timestamps are recorded
InitTiming ==
    /\ InitApp
    /\ timing = TRUE
    /\ rx_period = 0

NextTiming ==
    \/ TickTimely
    \/ Producer
    \/ OnStart
    \/ SetState
    \/ UpdateControls

SpecTiming == InitTiming /\ [][NextTiming]_vars

\* ------------------------------------------------ RandomApp._render_value
\* The rate estimate is floating point in the code; here it is fixed point:
\* times in microseconds, rates in mHz, divisions truncated.

\* 1.0 / dt for dt in seconds, as mHz per microsecond
UnitRate == 1000000000
\* the 1e-6 s floor of max(now - self._last_rx_time, 1e-6)
MinDt == 1
\* alpha = 0.2, as AlphaNum / AlphaDen
AlphaNum == 2
AlphaDen == 10

\* inst_rate = 1.0 / max(now - self._last_rx_time, 1e-6)
InstRate(dt) == UnitRate \div Max(dt, MinDt)

\* EmaNext with alpha = 0.1
EmaNext_SlowAlpha(ema, inst) ==
    ((AlphaDen - 1) * ema + 1 * inst) \div AlphaDen

\* (1 - alpha) * self._ema_rate + alpha * inst_rate
EmaNext(ema, inst) ==
    ((AlphaDen - AlphaNum) * ema + AlphaNum * inst) \div AlphaDen

\* arrival periods of the rendered samples: 5, 10, 20, 25, 40 and 50 Hz
RxPeriods == {200000, 100000, 50000, 40000, 25000, 20000}

\* a sample arrives rx_period after the previous one and is rendered
RenderValue ==
    /\ rx_count < MaxSamples
    /\ rx_now' = rx_now + rx_period
    /\ ema_rate' = IF last_rx_time # NONE
                     THEN EmaNext(ema_rate, InstRate(rx_now' - last_rx_time))
                     ELSE 0
    /\ last_rx_time' = rx_now'
    /\ rx_count' = rx_count + 1
    /\ UNCHANGED <<rx_period, timing, now>>
    /\ UNCHANGED <<producer_vars, flag_vars, queue_vars, ctl_vars, ui_vars>>

\* a fresh consumer fed at a perfectly regular rate
InitEma ==
    /\ InitApp
    /\ timing = FALSE
    /\ rx_period \in RxPeriods

NextEma == RenderValue

SpecEma == InitEma /\ [][NextEma]_vars

\* the Controller on its own: handle is called with any event in any state
ApiHandle == \E e \in Event : HandleEnter(e, "api")

NextCtl ==
    \/ Tick
    \/ Producer
    \/ ApiHandle
    \/ Handle
    \/ Poll

SpecCtl == Init /\ [][NextCtl]_vars

TypeOK ==
    /\ state \in State
    /\ run_event \in BOOLEAN
    /\ shutdown \in BOOLEAN
    /\ Len(outbox) <= Capacity + 1
    /\ pc \in {"loop", "pace", "sleep", "enabled", "put1", "evict", "put2", "done"}
    /\ ui_pc \in {"mainloop", "shutdown_clear", "set_state", "update_controls",
                  "schedule_destroy", "poll", "destroyed"}
    /\ cur_event \in Event
    /\ now \in 0..MaxTime

\* ================================================================ claims

\* the transition table of the state machine, row by row
TransitionTable(s, e) ==
    CASE s = IDLE /\ e = START -> RUNNING
      [] s = IDLE /\ e = SHUTDOWN -> STOPPING
      [] s = RUNNING /\ e = STOP -> IDLE
      [] s = RUNNING /\ e = SHUTDOWN -> STOPPING
      [] OTHER -> s

RECURSIVE FoldTable(_, _)
FoldTable(s, es) ==
    IF es = <<>> THEN s
    ELSE FoldTable(TransitionTable(s, Head(es)), Tail(es))

Front(es) == SubSeq(es, 1, Len(es) - 1)

\* C1: after any sequence of events the controller state is the fold of the
\* transition table over that sequence, starting from IDLE; while a handle
\* call is still running the state is the fold over the events before it.
C1_TableFold ==
    IF InHandle
      THEN state = FoldTable(IDLE, Front(events))
      ELSE state = FoldTable(IDLE, events)

\* a no-op row (START in RUNNING) and two real rows have been handled
C1_Witness ==
    /\ ~InHandle
    /\ events = <<START, START, STOP>>
    /\ state = IDLE

\* C2: STOPPING is absorbing: no step leaves it.
C2_StoppingAbsorbing == [][state = STOPPING => state' = STOPPING]_vars

\* START and STOP have been handled after the state became STOPPING
C2_Witness ==
    /\ ~InHandle
    /\ events = <<SHUTDOWN, START, STOP>>
    /\ state = STOPPING

Range(q) == {q[i] : i \in 1..Len(q)}

\* the last n elements of q
LastN(q, n) == SubSeq(q, Len(q) - n + 1, Len(q))

\* the producer is between two puts: no sample is in its hands
BetweenPuts == value = 0

\* C3: once the controller state is STOPPING, the producer pushes no
\* further sample into the output queue.
C3_NoPushAfterStopping == [][state = STOPPING => pushed' = pushed]_vars

\* the last event handled is STOP and it has moved the state to IDLE
StoppedByStop ==
    /\ state = IDLE
    /\ events # <<>>
    /\ events[Len(events)] = STOP

\* C4: after handle(STOP) has moved the state from RUNNING to IDLE the
\* producer pushes no sample until a later START is handled.
C4_NoPushAfterStop == [][StoppedByStop => pushed' = pushed]_vars

\* C6: the output queue never holds more than Capacity messages.
C6_QueueBounded == Len(outbox) <= Capacity

\* the queue is full and a put has just been refused
C6_Witness ==
    /\ Len(outbox) = Capacity
    /\ pc = "evict"

\* C7: while the consumer has popped nothing, after n pushes the queue holds
\* exactly the last min(n, Capacity) samples in production order; each push
\* beyond Capacity has evicted exactly one sample, the oldest.
C7_DropOldest ==
    (rendered = <<>> /\ BetweenPuts) =>
        /\ \A i \in 1..Len(pushed) : pushed[i] = i
        /\ outbox = LastN(pushed, Min(Len(pushed), Capacity))
        /\ evicted = 1..(Len(pushed) - Len(outbox))

\* two pushes onto a full queue, no pop
C7_Witness ==
    /\ rendered = <<>>
    /\ BetweenPuts
    /\ Len(pushed) = Capacity + 2
    /\ Len(outbox) = Capacity

\* C8: the rendered samples are a subsequence of the produced ones, in
\* production order (sample i is the i-th sample created).
C8_Fifo ==
    /\ \A i \in 1..Len(rendered) : rendered[i] \in 1..produced
    /\ \A i, j \in 1..Len(rendered) : i < j => rendered[i] < rendered[j]

\* a sample between two rendered ones was evicted
C8_Witness ==
    \E i \in 1..(Len(rendered) - 1) :
        \E x \in evicted : rendered[i] < x /\ x < rendered[i + 1]

\* C9: every pushed sample is in exactly one place: rendered, evicted or
\* still queued; nothing is rendered or queued twice.
C9_SingleHandOff ==
    /\ Range(pushed) = Range(rendered) \cup evicted \cup Range(outbox)
    /\ Range(rendered) \cap evicted = {}
    /\ Range(rendered) \cap Range(outbox) = {}
    /\ evicted \cap Range(outbox) = {}
    /\ Cardinality(Range(rendered)) = Len(rendered)
    /\ Cardinality(Range(outbox)) = Len(outbox)
    /\ Cardinality(Range(pushed)) = Len(pushed)

\* samples in all three places at once
C9_Witness ==
    /\ rendered # <<>>
    /\ evicted # {}
    /\ outbox # <<>>

\* C5: once shutdown has been requested the producer loop terminates (the
\* producer thread being scheduled fairly), and it starts no new iteration:
\* the next test at the top of the loop leaves it.
C5_ShutdownTerminates ==
    /\ shutdown ~> (pc = "done")
    /\ [][(shutdown /\ pc = "loop") => pc' \in {"loop", "done"}]_vars

\* the loop has ended after a shutdown that followed some production
C5_Witness ==
    /\ pc = "done"
    /\ state = STOPPING
    /\ pushed # <<>>

\* a step of the poll in progress (the producer leaves these alone)
PollMoves == <<ui_pc, processed, poll_pending>>' # <<ui_pc, processed, poll_pending>>

\* C10: a poll renders at most BatchSize messages, never waits, ends at the
\* first empty pop, and leaves exactly one next poll scheduled.
C10_PollBounded ==
    /\ [](processed <= BatchSize)
    /\ [](poll_pending = IF ui_pc = "poll" THEN 0 ELSE 1)
    /\ [](ui_pc = "poll" => ENABLED PollStep)
    /\ [][(ui_pc = "poll" /\ PollMoves) =>
            IF Empty(outbox) \/ processed >= BatchSize
              THEN /\ ui_pc' = "mainloop"
                   /\ poll_pending' = 1
                   /\ rendered' = rendered
                   /\ outbox' = outbox
              ELSE /\ ui_pc' = "poll"
                   /\ processed' = processed + 1
                   /\ rendered' = Append(rendered, Head(outbox))]_vars

\* the batch limit ends a poll while the queue still holds a message
C10_Witness ==
    /\ ui_pc = "poll"
    /\ processed = BatchSize
    /\ ~Empty(outbox)

\* the Tk main loop is between two callbacks, or inside a poll
UiAtRest == ui_pc \in {"mainloop", "poll"}

\* C12: whenever the Start button is enabled the state is IDLE and whenever
\* the Stop button is enabled the state is RUNNING, also after _on_close.
C12_ControlsFollowState ==
    UiAtRest =>
        /\ btn_start => state = IDLE
        /\ btn_stop => state = RUNNING

\* C13 (as claimed): whenever the producer loop has terminated the
\* controller state is STOPPING.
C13_ExitOnlyWhenStopping == pc = "done" => state = STOPPING

\* C13 (amended): whenever the producer loop has terminated the shutdown
\* flag is set, and the state is STOPPING unless the handle(SHUTDOWN) call
\* that set the flag has not yet assigned it.
C13_ExitOnlyOnShutdown ==
    pc = "done" =>
        /\ shutdown
        /\ state = STOPPING \/ (InHandle /\ cur_event = SHUTDOWN)

\* the loop has ended with a full queue
C13_Witness ==
    /\ pc = "done"
    /\ state = STOPPING
    /\ Len(outbox) = Capacity

\* C15: every sample created on an enabled tick is at the tail of the
\* queue when its put statement ends, and the re-put after an eviction
\* never finds the queue full.
C15_NewestKept ==
    /\ [](pc = "put2" => ~Full(outbox))
    /\ [][(value # 0 /\ value' = 0) =>
            /\ outbox' # <<>>
            /\ outbox'[Len(outbox')] = value
            /\ pushed' = Append(pushed, value)]_vars

\* the newest sample has gone in through the re-put after an eviction
C15_Witness ==
    /\ BetweenPuts
    /\ evicted # {}
    /\ produced - 1 \in evicted
    /\ outbox # <<>>
    /\ outbox[Len(outbox)] = produced

\* C16: whenever the producer removes a sample from the queue, the queue
\* holds exactly Capacity elements at that instant.
C16_EvictOnlyWhenFull == [][evicted' # evicted => Len(outbox) = Capacity]_vars

\* the rows of the transition table that are no-ops
NoOpRow(s, e) ==
    \/ s = IDLE /\ e = STOP
    \/ s = RUNNING /\ e = START
    \/ s = STOPPING

\* C17: handling an event of a no-op row changes neither the state, nor the
\* two producer flags, nor the queue, and the call returns at once.
C17_NoOpRows ==
    [][(events' # events /\ NoOpRow(state, events'[Len(events')])) =>
          /\ UNCHANGED <<state, run_event, shutdown, outbox>>
          /\ ~InHandle']_vars

\* START has been handled in RUNNING with samples queued
C17_Witness ==
    /\ events = <<START, START>>
    /\ ~InHandle
    /\ state = RUNNING
    /\ outbox # <<>>

\* C19: whenever no handle call is in progress, the enabled flag is set iff
\* the state is RUNNING and the shutdown flag is set iff it is STOPPING.
C19_FlagsMirrorState ==
    ~InHandle =>
        /\ run_event <=> state = RUNNING
        /\ shutdown <=> state = STOPPING

\* shutdown has been handled in RUNNING: both flags have changed
C19_Witness ==
    /\ ~InHandle
    /\ events = <<START, SHUTDOWN, START>>
    /\ state = STOPPING

\* the liveness half of C20: if STOP stays the last event handled, the
\* queue eventually is empty for good
C20_EventuallyEmpty == (<>[]StoppedByStop) => <>[]Empty(outbox)

\* C20: if the state has left RUNNING by STOP and no event follows, the
\* queue eventually becomes empty and stays empty, and every sample that was
\* queued is rendered: none is discarded after the STOP.
C20_BacklogDrained ==
    /\ (<>[]StoppedByStop) => <>[]Empty(outbox)
    /\ [][StoppedByStop => evicted' = evicted]_vars

\* the producer leaves its pacing test or its sleep
PacingMoves == pc \in {"pace", "sleep"} /\ pc' # pc

\* C18: an iteration that finds the deadline passed advances it by exactly
\* one period and creates at most one sample, so after k of them the
\* deadline is its initial value (0) plus k periods; an iteration that finds
\* the deadline ahead changes neither the deadline nor the queue.
C18_DriftFree ==
    /\ [](next_tick = ticks * Period)
    /\ [](produced <= ticks)
    /\ [][PacingMoves =>
            IF pc = "pace" /\ now >= next_tick
              THEN /\ next_tick' = next_tick + Period
                   /\ ticks' = ticks + 1
                   /\ produced' = produced
              ELSE /\ next_tick' = next_tick
                   /\ ticks' = ticks
                   /\ outbox' = outbox
                   /\ pushed' = pushed]_vars

\* the producer runs late: the deadline it has just advanced is still more
\* than a period behind the clock
C18_Witness ==
    /\ pc = "enabled"
    /\ ticks = 2
    /\ now > next_tick + Period

\* number of samples whose timestamp lies in the interval [a, b)
WindowCount(a, b) ==
    Cardinality({i \in 1..Len(stamps) : a <= stamps[i] /\ stamps[i] < b})

Abs(x) == IF x < 0 THEN -x ELSE x

\* over every interval [a, b) of elapsed time in which the state has been
\* RUNNING throughout, the number of samples emitted is within d of
\* floor((b - a) / Period)
RateWithin(d) ==
    state = RUNNING =>
        \A a \in run_since..now : \A b \in a..now :
            Abs(WindowCount(a, b) - ((b - a) \div Period)) <= d

\* C11 (as claimed): over any interval of continuous RUNNING the number of
\* samples emitted is within 1 of floor(T / Period), for every scheduling
\* delay of the producer.
C11_RateWithinOne == RateWithin(1)

\* the allowance a scheduling delay of up to MaxDelay adds
DelaySlack == (MaxDelay + Period - 1) \div Period

\* C11 (amended): with the producer at most MaxDelay late, the number is
\* within 1 + ceil(MaxDelay / Period) of floor(T / Period).
C11_RateWithinDelay == RateWithin(1 + DelaySlack)

\* an interval of continuous RUNNING in which the late producer has caught
\* up: the count is off by more than 1
C11_Witness ==
    /\ state = RUNNING
    /\ \E a \in run_since..now : \E b \in a..now :
          WindowCount(a, b) = ((b - a) \div Period) + 2

\* the regular rate of the arrivals, in mHz
RegularRate == UnitRate \div rx_period

\* C14: the first rendered sample sets the estimate to 0; each later one
\* sets it to 0.8 * ema + 0.2 / dt (to within the fixed-point unit); at a
\* regular rate R it rises strictly and stays below R; at 20 Hz it is
\* within 5% of 20 Hz from the 20th sample on.
C14_EmaConverges ==
    /\ [](rx_count = 1 => ema_rate = 0)
    /\ [][(rx_count >= 1 /\ rx_count' = rx_count + 1) =>
            /\ 10 * ema_rate' <= 8 * ema_rate + 2 * RegularRate
            /\ 10 * ema_rate' > 8 * ema_rate + 2 * RegularRate - 10
            /\ ema_rate < ema_rate'
            /\ ema_rate' < RegularRate]_vars
    /\ []((rx_period = 50000 /\ rx_count >= 20) =>
            /\ ema_rate <= 20000
            /\ 20000 - ema_rate <= 1000)

\* twenty samples have been rendered at 20 Hz
C14_Witness ==
    /\ rx_period = 50000
    /\ rx_count = 20
    /\ ema_rate >= 19000

====
